---- MODULE Spec2Model ----
(***************************************************************************)
(* Model of qa/book/dead_pages.py: the dead-page finder of the book.       *)
(*                                                                         *)
(* Strings are sequences of one-character strings, so that str.split,      *)
(* str.startswith, the '*.md' pattern and the path algebra are computed    *)
(* the way the code computes them.  A Path object is the sequence of its   *)
(* components below the root "/"; every Path of the program is absolute.   *)
(* The filesystem is a set of nodes (directories, regular files and        *)
(* symbolic links); it is an input of the run and is never written.        *)
(***************************************************************************)
EXTENDS Integers, Sequences, FiniteSets

(***************************************************************************)
(* Bounds of the model.                                                    *)
(***************************************************************************)
\* most links matched in the text of SUMMARY.md
MaxLinks == 2
\* most optional directory entries present under the book source directory
MaxEntries == 2

(***************************************************************************)
(* Strings.                                                                *)
(***************************************************************************)
StartsWith(s, p) == Len(s) >= Len(p) /\ SubSeq(s, 1, Len(p)) = p

EndsWith(s, p) == Len(s) >= Len(p) /\ SubSeq(s, Len(s) - Len(p) + 1, Len(s)) = p

\* str.split(c): the pieces of s between the occurrences of c, at least one
RECURSIVE Split(_, _)
Split(s, c) ==
    IF \A i \in 1..Len(s) : s[i] # c
    THEN <<s>>
    ELSE LET k == CHOOSE i \in 1..Len(s) :
                      s[i] = c /\ \A j \in 1..(i - 1) : s[j] # c
         IN  <<SubSeq(s, 1, k - 1)>> \o Split(SubSeq(s, k + 1, Len(s)), c)

\* ord() of the characters the model's strings are made of
Ord(c) ==
    CASE c = "#" -> 35  [] c = "." -> 46  [] c = "/" -> 47  [] c = ":" -> 58
      [] c = "A" -> 65  [] c = "M" -> 77  [] c = "R" -> 82  [] c = "S" -> 83
      [] c = "U" -> 85  [] c = "Y" -> 89  [] c = "_" -> 95
      [] c = "a" -> 97  [] c = "b" -> 98  [] c = "c" -> 99  [] c = "d" -> 100
      [] c = "e" -> 101 [] c = "g" -> 103 [] c = "h" -> 104 [] c = "i" -> 105
      [] c = "k" -> 107 [] c = "l" -> 108 [] c = "m" -> 109 [] c = "n" -> 110
      [] c = "o" -> 111 [] c = "p" -> 112 [] c = "q" -> 113 [] c = "r" -> 114
      [] c = "s" -> 115 [] c = "t" -> 116 [] c = "v" -> 118 [] c = "x" -> 120
      [] c = "y" -> 121

\* str < str: by code points, a proper prefix first
RECURSIVE StrLess(_, _)
StrLess(s, t) ==
    IF t = <<>> THEN FALSE
    ELSE IF s = <<>> THEN TRUE
    ELSE IF s[1] # t[1] THEN Ord(s[1]) < Ord(t[1])
    ELSE StrLess(Tail(s), Tail(t))

(***************************************************************************)
(* The strings of the program and of the modelled trees.                   *)
(***************************************************************************)
SummaryName == <<"S", "U", "M", "M", "A", "R", "Y", ".", "m", "d">>
MdSuffix    == <<".", "m", "d">>
Http        == <<"h", "t", "t", "p", ":", "/", "/">>
Https       == <<"h", "t", "t", "p", "s", ":", "/", "/">>
Mailto      == <<"m", "a", "i", "l", "t", "o", ":">>
CurDir      == <<".">>
ParDir      == <<".", ".">>

N_r      == <<"r">>
N_qa     == <<"q", "a">>
N_book   == <<"b", "o", "o", "k">>
N_src    == <<"s", "r", "c">>
N_script == <<"d", "e", "a", "d", "_", "p", "a", "g", "e", "s", ".", "p", "y">>
N_v      == <<"v">>
N_x      == <<"x">>
N_g      == <<"g">>
N_a      == <<"a", ".", "m", "d">>
N_c      == <<"c", ".", "m", "d">>
N_t      == <<"t", ".", "m", "d">>
N_l      == <<"l", ".", "m", "d">>
N_o      == <<"o", ".", "m", "d">>
N_n      == <<"n", ".", "t", "x", "t">>
Slash    == <<"/">>

(***************************************************************************)
(* The filesystem: a set of nodes, each a directory, a regular file or a   *)
(* symbolic link with the string readlink() gives for it.                  *)
(***************************************************************************)
DirNode(p)     == [path |-> p, kind |-> "dir", target |-> <<>>]
FileNode(p)    == [path |-> p, kind |-> "file", target |-> <<>>]
LinkNode(p, t) == [path |-> p, kind |-> "link", target |-> t]

\* the installed script, qa/book/dead_pages.py of the project /r
ScriptFile == <<N_r, N_qa, N_book, N_script>>
\* where the script looks for the book: /r/book/src
BookSrcPath == <<N_r, N_book, N_src>>
\* the directory /r/book/src points to when it is a symbolic link
LinkedRoot == <<N_v>>

\* what every modelled tree holds
FixedNodes ==
    { DirNode(<<N_r>>), DirNode(<<N_r, N_qa>>), DirNode(<<N_r, N_qa, N_book>>),
      FileNode(ScriptFile), DirNode(<<N_r, N_book>>),
      DirNode(<<N_x>>), FileNode(<<N_x, N_n>>) }

\* /r/book/src itself: missing, a regular file, a directory, or a link to /v
BookKinds == {"absent", "file", "dir", "link"}

BookNodes(k) ==
    CASE k = "absent" -> {}
      [] k = "file"   -> {FileNode(BookSrcPath)}
      [] k = "dir"    -> {DirNode(BookSrcPath)}
      [] k = "link"   -> {LinkNode(BookSrcPath, Slash \o N_v), DirNode(LinkedRoot)}

\* the directory that holds the book's entries
RealRoot(k) == IF k = "link" THEN LinkedRoot ELSE BookSrcPath

\* entries every book directory holds: a subdirectory and a file that is no .md
CommonEntries(R) == { DirNode(R \o <<N_g>>), FileNode(R \o <<N_n>>) }

\* the entries a tree may or may not hold
OptionalEntries(R) ==
    { FileNode(R \o <<N_a>>),
      FileNode(R \o <<N_g, N_c>>),
      FileNode(R \o <<N_g, SummaryName>>),
      LinkNode(R \o <<N_t>>, SummaryName),
      LinkNode(R \o <<N_l>>, N_a),
      LinkNode(R \o <<N_o>>, Slash \o N_x \o Slash \o N_n) }

\* the trees whose /r/book/src is (or points to) the directory R
BookTrees(k, R) ==
    { FixedNodes \cup BookNodes(k) \cup CommonEntries(R) \cup opt \cup toc :
        opt \in { e \in SUBSET OptionalEntries(R) : Cardinality(e) <= MaxEntries },
        toc \in { {}, {FileNode(R \o <<SummaryName>>)} } }

\* the trees of the model
Trees ==
    { FixedNodes \cup BookNodes(k) : k \in {"absent", "file"} }
    \cup UNION { BookTrees(k, RealRoot(k)) : k \in {"dir", "link"} }

(***************************************************************************)
(* The link targets the text of SUMMARY.md is made of.                     *)
(***************************************************************************)
T_a      == N_a
T_dot_a  == <<".", "/">> \o N_a
T_frag   == T_dot_a \o <<"#", "s">>
T_self   == SummaryName
T_https  == Https \o <<"e", "/", "x", ".", "m", "d">>
T_http   == Http \o <<"e">>
T_mailto == Mailto \o <<"m">>
T_anchor == <<"#", "s">>

Targets == { T_a, T_dot_a, T_frag, T_self, T_https, T_http, T_mailto, T_anchor }

\* the targets of the links of a text, in the order finditer matches them
Contents == UNION { [1..n -> Targets] : n \in 0..MaxLinks }


VARIABLES
    fs,             \* the filesystem the run reads
    content,        \* the link targets of the text of /r/book/src/SUMMARY.md
    run,            \* 1 for the first run over the tree, 2 for the second
    pc,             \* where main() is
    book_src,       \* main: book_src
    matches,        \* parse_summary: the matches finditer has not yielded yet
    summary_files,  \* parse_summary: files, then main: summary_files
    todo,           \* find_dead_pages: the entries rglob has not yielded yet
    dead,           \* find_dead_pages: dead
    dead_pages,     \* main: dead_pages
    out,            \* the lines written to standard output
    err,            \* the lines written to standard error
    status,         \* the exit status of the process, -1 while it runs
    prev_dead,      \* dead_pages of the first run
    prev_status     \* exit status of the first run

vars == << fs, content, run, pc, book_src, matches, summary_files, todo, dead,
           dead_pages, out, err, status, prev_dead, prev_status >>

(***************************************************************************)
(* Paths.                                                                  *)
(***************************************************************************)
NoNode == [path |-> <<>>, kind |-> "none", target |-> <<>>]

\* os.lstat of an absolute path whose directories are already resolved
Lstat(p) ==
    IF \E n \in fs : n.path = p THEN CHOOSE n \in fs : n.path = p ELSE NoNode

\* PurePath.parent
Parent(p) == IF p = <<>> THEN <<>> ELSE SubSeq(p, 1, Len(p) - 1)

\* PurePath.name
Name(p) == IF p = <<>> THEN <<>> ELSE p[Len(p)]

\* the components pathlib keeps of a string: no empty one and no "."
Parts(str) == SelectSeq(Split(str, "/"), LAMBDA c : c # <<>> /\ c # CurDir)

IsAbs(str) == StartsWith(str, Slash)

\* path / str: an absolute str replaces the path
PathDiv(p, str) == IF IsAbs(str) THEN Parts(str) ELSE p \o Parts(str)

\* posixpath._joinrealpath, not strict: resolves "..", "." and symbolic links
\* component by component; a component that does not exist is kept
RECURSIVE JoinRealPath(_, _)
JoinRealPath(path, rest) ==
    IF rest = <<>> THEN path
    ELSE LET name    == Head(rest)
             newpath == Append(path, name)
         IN  IF name = <<>> \/ name = CurDir
             THEN JoinRealPath(path, Tail(rest))
             ELSE IF name = ParDir
             THEN JoinRealPath(Parent(path), Tail(rest))
             ELSE IF Lstat(newpath).kind = "link"
             THEN LET link == Lstat(newpath).target
                  IN  JoinRealPath(
                          JoinRealPath(IF IsAbs(link) THEN <<>> ELSE path,
                                       Split(link, "/")),
                          Tail(rest))
             ELSE JoinRealPath(newpath, Tail(rest))

\* Path.resolve()
Resolve(p) == JoinRealPath(<<>>, p)

\* Path.exists(): stat follows symbolic links
Exists(p) == Lstat(Resolve(p)).kind # "none"

\* p is base or lies below it, component by component
IsUnder(p, base) == Len(p) >= Len(base) /\ SubSeq(p, 1, Len(base)) = base

\* PurePath.relative_to(base), defined when IsUnder(p, base)
RelativeTo(p, base) == SubSeq(p, Len(base) + 1, Len(p))

\* PurePath.__lt__: the lists of components compared, strings by code point
RECURSIVE PathLess(_, _)
PathLess(p, q) ==
    IF q = <<>> THEN FALSE
    ELSE IF p = <<>> THEN TRUE
    ELSE IF p[1] # q[1] THEN StrLess(p[1], q[1])
    ELSE PathLess(Tail(p), Tail(q))

\* the list as the walk built it
Unsorted(list) == list

\* sorted(list): ascending, equal elements kept
RECURSIVE Sorted(_)
Sorted(list) ==
    IF list = <<>> THEN <<>>
    ELSE LET k == CHOOSE i \in 1..Len(list) :
                      \A j \in 1..Len(list) : ~PathLess(list[j], list[i])
         IN  <<list[k]>> \o
             Sorted(SubSeq(list, 1, k - 1) \o SubSeq(list, k + 1, Len(list)))

\* fnmatch of a name against '*.md'
MatchesMd(name) == EndsWith(name, MdSuffix)

\* Path.rglob('*.md'): every entry below the directory whose name matches, as
\* the path of the directory joined with the entry's path below it
Rglob(dir) ==
    LET real == Resolve(dir)
        below(n) ==
            /\ Len(n.path) > Len(real)
            /\ IsUnder(n.path, real)
            /\ \A k \in Len(real)..(Len(n.path) - 1) :
                   Lstat(SubSeq(n.path, 1, k)).kind = "dir"
    IN  { dir \o RelativeTo(n.path, real) :
            n \in { m \in fs : below(m) /\ MatchesMd(Name(m.path)) } }

(***************************************************************************)
(* find_book_src.                                                          *)
(***************************************************************************)
\* the directory find_book_src looks for: script_dir.parent.parent / book / src
BookSrcOf(script) ==
    LET script_dir == Parent(Resolve(script))
    IN  PathDiv(PathDiv(Parent(Parent(script_dir)), N_book), N_src)

\* find_book_src returns the path (it does not raise FileNotFoundError)
BookSrcFound(p) == Exists(p)

(***************************************************************************)
(* parse_summary.                                                          *)
(***************************************************************************)
\* the target with its anchor
KeepAnchor(target) == target

\* the anchor stripped: target.split('#')[0] when the target holds a '#'
StripAnchor(target) ==
    IF \E i \in 1..Len(target) : target[i] = "#"
    THEN Split(target, "#")[1]
    ELSE target

\* the test without 'https://'
IsExternalNoHttps(target) == StartsWith(target, Http) \/ StartsWith(target, Mailto)

\* target.startswith(('http://', 'https://', 'mailto:'))
IsExternal(target) ==
    StartsWith(target, Http) \/ StartsWith(target, Https) \/ StartsWith(target, Mailto)

\* (summary_path.parent / target).resolve()
ResolveTarget(summary_path, target) == Resolve(PathDiv(Parent(summary_path), target))

\* files after the body of the loop has run for one match
AddMatch(files, summary_path, match) ==
    LET target == StripAnchor(match)
    IN  IF IsExternal(target) THEN files
        ELSE IF target = <<>> THEN files
        ELSE files \cup {ResolveTarget(summary_path, target)}

(***************************************************************************)
(* find_dead_pages.                                                        *)
(***************************************************************************)
\* md_file.name == 'SUMMARY.md'
IsSummary(md_file) == Name(md_file) = SummaryName

\* dead after the body of the loop has run for one entry of the walk
AddEntry(list, files, md_file) ==
    LET resolved == Resolve(md_file)
    IN  IF IsSummary(md_file) THEN list
        ELSE IF resolved \notin files THEN Append(list, resolved)
        ELSE list

(***************************************************************************)
(* main.                                                                   *)
(***************************************************************************)
Line(text, path, n) == [text |-> text, path |-> path, n |-> n]

ErrBookSrc == "Error: Book source directory not found at"
ErrSummary == "Error: SUMMARY.md not found at"
Traceback  == "Traceback (most recent call last): ValueError"

SummaryPath(dir) == PathDiv(dir, SummaryName)

\* the number of pages main prints before relative_to raises ValueError
\* (all of them when none does)
RECURSIVE Printable(_, _)
Printable(pages, dir) ==
    IF pages = <<>> \/ ~IsUnder(Head(pages), dir) THEN 0
    ELSE 1 + Printable(Tail(pages), dir)

\* status 0 whatever the list holds
ReportStatusZero(pages) == 0

\* the exit status of a run that reached the report
ReportStatus(pages) == IF pages = <<>> THEN 0 ELSE 1

Init ==
    /\ fs \in Trees
    /\ content \in IF Lstat(Resolve(SummaryPath(BookSrcPath))).kind = "file"
                   THEN Contents ELSE {<<>>}
    /\ run = 1
    /\ pc = "find_book_src"
    /\ book_src = <<>>
    /\ matches = <<>>
    /\ summary_files = {}
    /\ todo = {}
    /\ dead = <<>>
    /\ dead_pages = <<>>
    /\ out = <<>>
    /\ err = <<>>
    /\ status = -1
    /\ prev_dead = <<>>
    /\ prev_status = -1

\* main, lines 61-65: the call of find_book_src and its except clause
FindBookSrc ==
    /\ pc = "find_book_src"
    /\ LET p == BookSrcOf(ScriptFile)
       IN  IF BookSrcFound(p)
           THEN /\ book_src' = p
                /\ pc' = "check_summary"
                /\ UNCHANGED << err, status >>
           ELSE /\ err' = Append(err, Line(ErrBookSrc, p, 0))
                /\ status' = 1
                /\ pc' = "done"
                /\ UNCHANGED book_src
    /\ UNCHANGED << fs, content, run, matches, summary_files, todo, dead,
                    dead_pages, out, prev_dead, prev_status >>

\* main, lines 67-72, and the start of parse_summary (lines 20-24)
CheckSummary ==
    /\ pc = "check_summary"
    /\ IF Exists(SummaryPath(book_src))
       THEN /\ out' = Append(out, Line("Checking for dead pages in:", book_src, 0))
            /\ matches' = content
            /\ summary_files' = {}
            /\ pc' = "parse"
            /\ UNCHANGED << err, status >>
       ELSE /\ err' = Append(err, Line(ErrSummary, SummaryPath(book_src), 0))
            /\ status' = 1
            /\ pc' = "done"
            /\ UNCHANGED << out, matches, summary_files >>
    /\ UNCHANGED << fs, content, run, book_src, todo, dead, dead_pages,
                    prev_dead, prev_status >>

\* parse_summary, lines 26-39: the body of the loop, for the next match
ParseMatch ==
    /\ pc = "parse"
    /\ matches # <<>>
    /\ summary_files' = AddMatch(summary_files, SummaryPath(book_src), Head(matches))
    /\ matches' = Tail(matches)
    /\ UNCHANGED << fs, content, run, pc, book_src, todo, dead, dead_pages, out,
                    err, status, prev_dead, prev_status >>

\* parse_summary returns; main, lines 75-77, and the call of rglob
ParseReturn ==
    /\ pc = "parse"
    /\ matches = <<>>
    /\ out' = Append(out, Line("Found files in SUMMARY.md", <<>>,
                               Cardinality(summary_files)))
    /\ todo' = Rglob(book_src)
    /\ dead' = <<>>
    /\ pc' = "walk"
    /\ UNCHANGED << fs, content, run, book_src, matches, summary_files,
                    dead_pages, err, status, prev_dead, prev_status >>

\* find_dead_pages, lines 48-54: the body of the loop, for the entry the walk
\* yields next; the order of a directory's entries is the operating system's
WalkEntry ==
    /\ pc = "walk"
    /\ \E md_file \in todo :
           /\ dead' = AddEntry(dead, summary_files, md_file)
           /\ todo' = todo \ {md_file}
    /\ UNCHANGED << fs, content, run, pc, book_src, matches, summary_files,
                    dead_pages, out, err, status, prev_dead, prev_status >>

\* find_dead_pages, line 56
WalkReturn ==
    /\ pc = "walk"
    /\ todo = {}
    /\ dead_pages' = Sorted(dead)
    /\ pc' = "report"
    /\ UNCHANGED << fs, content, run, book_src, matches, summary_files, todo,
                    dead, out, err, status, prev_dead, prev_status >>

\* main, lines 79-88; a ValueError of relative_to is not caught: the
\* interpreter writes the traceback to standard error and exits with status 1
Report ==
    /\ pc = "report"
    /\ IF dead_pages = <<>>
       THEN /\ out' = Append(out, Line("No dead pages found!", <<>>, 0))
            /\ err' = err
       ELSE LET k == Printable(dead_pages, book_src)
            IN  /\ out' = out
                       \o << Line("Found dead page(s) (not in SUMMARY.md):", <<>>,
                                  Len(dead_pages)) >>
                       \o [ j \in 1..k |->
                              Line("  ", RelativeTo(dead_pages[j], book_src), 0) ]
                /\ err' = IF k < Len(dead_pages)
                          THEN Append(err, Line(Traceback, dead_pages[k + 1], 0))
                          ELSE err
    /\ status' = ReportStatus(dead_pages)
    /\ pc' = "done"
    /\ UNCHANGED << fs, content, run, book_src, matches, summary_files, todo,
                    dead, dead_pages, prev_dead, prev_status >>

\* the script is run a second time over the same tree (lines 91-92)
Rerun ==
    /\ pc = "done"
    /\ run = 1
    /\ run' = 2
    /\ prev_dead' = dead_pages
    /\ prev_status' = status
    /\ pc' = "find_book_src"
    /\ book_src' = <<>>
    /\ matches' = <<>>
    /\ summary_files' = {}
    /\ todo' = {}
    /\ dead' = <<>>
    /\ dead_pages' = <<>>
    /\ out' = <<>>
    /\ err' = <<>>
    /\ status' = -1
    /\ UNCHANGED << fs, content >>

Next ==
    \/ FindBookSrc
    \/ CheckSummary
    \/ ParseMatch
    \/ ParseReturn
    \/ WalkEntry
    \/ WalkReturn
    \/ Report
    \/ Rerun

Spec == Init /\ [][Next]_vars

(***************************************************************************)
(* The notions the properties are stated in.                               *)
(***************************************************************************)
Elems(seq) == { seq[i] : i \in 1..Len(seq) }

\* BookRoot as the Locator computes it, and its canonical path
BookRoot == BookSrcPath
CanonRoot == Resolve(BookSrcPath)

\* the table-of-contents file, by its canonical path
TocFile == Resolve(Append(BookSrcPath, SummaryName))

\* BookRoot exists; it exists as a directory; SUMMARY.md is directly inside it
RootExists == Lstat(CanonRoot).kind # "none"
RootIsDir == Lstat(CanonRoot).kind = "dir"
TocExists == Lstat(TocFile).kind # "none"
LocatorOk == RootExists /\ TocExists

\* find_dead_pages has returned and main has not reported yet
Scanned == pc = "report"

\* parse_summary is about to return files
Parsed == pc = "parse" /\ matches = <<>>

\* MarkdownFileSet: the canonical paths of the .md entries below BookRoot
MarkdownFileSet ==
    { Resolve(BookRoot \o RelativeTo(n.path, CanonRoot)) :
        n \in { m \in fs : /\ Len(m.path) > Len(CanonRoot)
                           /\ IsUnder(m.path, CanonRoot)
                           /\ EndsWith(Name(m.path), MdSuffix) } }

\* a link target up to its first '#'
BeforeHash(t) ==
    IF \E i \in 1..Len(t) : t[i] = "#"
    THEN SubSeq(t, 1, (CHOOSE i \in 1..Len(t) :
                           t[i] = "#" /\ \A j \in 1..(i - 1) : t[j] # "#") - 1)
    ELSE t

\* a stripped target that parse_summary is to drop
Dropped(t) == t = <<>> \/ \E scheme \in {Http, Https, Mailto} : StartsWith(t, scheme)

\* the distinct link targets of the text, after fragment stripping and the
\* exclusion of external URLs and empty targets
LinkTargets(k) == { t \in { BeforeHash(content[i]) : i \in 1..k } : ~Dropped(t) }

\* the canonical path of a target, relative to the directory of SUMMARY.md
CanonTarget(t) == Resolve(BookRoot \o Parts(t))

(***************************************************************************)
(* C1.  When main has returned, the exit status is 0 if and only if the    *)
(* Locator succeeded (BookRoot exists and SUMMARY.md exists directly       *)
(* inside it) and DeadPageList is empty; otherwise it is 1.                *)
(***************************************************************************)
C1_ExitStatus ==
    pc = "done" => status = (IF LocatorOk /\ dead_pages = <<>> THEN 0 ELSE 1)

\* a run over a tree with referenced pages and no dead page has exited 0
C1_Witness ==
    /\ pc = "done" /\ status = 0
    /\ \E p \in summary_files : Lstat(p).kind = "file"
    /\ Cardinality(MarkdownFileSet) >= 2

(***************************************************************************)
(* C2.  The list find_dead_pages returns holds exactly the elements of     *)
(* MarkdownFileSet minus ReferenceSet minus the table-of-contents file     *)
(* BookRoot/SUMMARY.md itself.                                             *)
(***************************************************************************)
C2_ExactDifference ==
    Scanned => Elems(dead_pages) = (MarkdownFileSet \ summary_files) \ {TocFile}

(***************************************************************************)
(* C3.  DeadPageList never contains the canonical path of SUMMARY.md.      *)
(***************************************************************************)
C3_NeverToc == Scanned => TocFile \notin Elems(dead_pages)

(***************************************************************************)
(* C4.  DeadPageList is sorted in ascending order of canonical path, and   *)
(* every element of it exists, lies under BookRoot (so that it can be      *)
(* shown relative to BookRoot) and has extension .md.                      *)
(***************************************************************************)
C4_SortedUnderRoot ==
    Scanned =>
        /\ \A i, j \in 1..Len(dead_pages) :
               i < j => ~PathLess(dead_pages[j], dead_pages[i])
        /\ \A p \in Elems(dead_pages) :
               /\ Lstat(p).kind # "none"
               /\ IsUnder(p, BookRoot)
               /\ EndsWith(Name(p), MdSuffix)

(***************************************************************************)
(* C5.  If BookRoot does not exist as a directory (it is missing, or is a  *)
(* regular file), main reports the BookRootNotFound error with the path    *)
(* and exits 1; the SummaryNotFound error is produced only when BookRoot   *)
(* exists as a directory and has no SUMMARY.md.                            *)
(***************************************************************************)
C5_NotFoundErrors ==
    pc = "done" =>
        /\ ~RootIsDir => err = << Line(ErrBookSrc, BookRoot, 0) >> /\ status = 1
        /\ (\E i \in 1..Len(err) : err[i].text = ErrSummary) => RootIsDir /\ ~TocExists

(***************************************************************************)
(* C6.  On a Locator failure exactly one "Error:" line is written to       *)
(* standard error, nothing to standard output, the Reference Extractor and *)
(* the Tree Scanner have not run, and the exit status is 1; when the       *)
(* Locator succeeds nothing is written to standard error.                  *)
(***************************************************************************)
C6_TerminalFailure ==
    pc = "done" =>
        IF LocatorOk
        THEN err = <<>>
        ELSE /\ Len(err) = 1 /\ err[1].text \in {ErrBookSrc, ErrSummary}
             /\ out = <<>>
             /\ summary_files = {} /\ dead = <<>> /\ dead_pages = <<>>
             /\ status = 1

(***************************************************************************)
(* C7, as claimed.  A text with N distinct link targets, counted after     *)
(* fragment stripping and the exclusion of external URLs, gives a          *)
(* ReferenceSet of exactly N elements.                                     *)
(***************************************************************************)
C7_ExactlyN ==
    Parsed => Cardinality(summary_files) = Cardinality(LinkTargets(Len(content)))

(***************************************************************************)
(* C7, amended.  ReferenceSet has one element for each distinct canonical  *)
(* path of the N targets, hence at most N elements: repeated targets,      *)
(* fragment variants and different spellings of one path collapse to one   *)
(* element, and a target with a fragment gives the element the target      *)
(* without it gives.                                                       *)
(***************************************************************************)
C7_OnePerCanonicalPath ==
    Parsed =>
        /\ Cardinality(summary_files)
               = Cardinality({ CanonTarget(t) : t \in LinkTargets(Len(content)) })
        /\ Cardinality(summary_files) <= Cardinality(LinkTargets(Len(content)))
        /\ \A i \in 1..Len(content) :
               ~Dropped(BeforeHash(content[i]))
                   => CanonTarget(BeforeHash(content[i])) \in summary_files

\* ./a.md#s and ./a.md have both been matched and gave one element
C7_Witness ==
    /\ Parsed
    /\ content = << T_frag, T_dot_a >>
    /\ Cardinality(summary_files) = 1

(***************************************************************************)
(* C8.  After any number of matches, ReferenceSet holds exactly the        *)
(* canonical paths, relative to the directory of SUMMARY.md, of the        *)
(* matched targets that, cut at their first '#', are not empty and do not  *)
(* start with http://, https:// or mailto:, whether the paths exist or     *)
(* not; https://e/x.md is never added.                                     *)
(***************************************************************************)
C8_Extraction ==
    pc = "parse" =>
        summary_files =
            { CanonTarget(t) : t \in LinkTargets(Len(content) - Len(matches)) }

\* an external URL has been skipped and a path that does not exist inserted
C8_Witness ==
    /\ Parsed
    /\ T_https \in Elems(content)
    /\ \E p \in summary_files : Lstat(p).kind = "none"

(***************************************************************************)
(* C9.  No step changes the tree, and the second run over it ends with the *)
(* DeadPageList and the exit status of the first, whatever the orders in   *)
(* which the two walks enumerated the entries.                             *)
(***************************************************************************)
C9_Idempotent ==
    [][ /\ fs' = fs /\ content' = content
        /\ (run' = 2 /\ pc' = "done")
               => (dead_pages' = prev_dead' /\ status' = prev_status') ]_vars

\* the second run has ended, and its walk did not yield the entries in order
C9_Witness ==
    /\ run = 2 /\ pc = "done"
    /\ Len(dead_pages) >= 2
    /\ dead # dead_pages

(***************************************************************************)
(* C10.  DeadPageList holds no canonical path more than once, so the       *)
(* number of dead pages main reports is the number of distinct             *)
(* unreferenced Markdown files.                                            *)
(***************************************************************************)
C10_NoDuplicates ==
    Scanned =>
        /\ \A i, j \in 1..Len(dead_pages) :
               i # j => dead_pages[i] # dead_pages[j]
        /\ Len(dead_pages) = Cardinality(Elems(dead_pages))

====
